---- MODULE Spec2Model ----
(***************************************************************************)
(* Battleship matchmaking and battle server (src/server.js).               *)
(*                                                                         *)
(* State: the waiting slot, the session registry, the per-connection       *)
(* binding (socket.gameId / socket.slot), the set of live connections, the *)
(* pending cleanup timers, and the messages emitted by the handler that    *)
(* ran last.  One action per socket.io handler plus one for the cleanup    *)
(* timer callback.  Handlers run to completion (single-threaded event      *)
(* loop), so each is one atomic step.                                      *)
(*                                                                         *)
(* A log entry is modelled by its type and a tag for its text (the shooter *)
(* name and the coordinate label inside the text are presentation only).   *)
(* Display names are not modelled.                                         *)
(***************************************************************************)
EXTENDS FiniteSets, Integers, Sequences, TLC

VARIABLES waitingPlayer, games, sockets, connected, timers, emitted

vars == <<waitingPlayer, games, sockets, connected, timers, emitted>>

(***************************************************************************)
(* Program constants                                                       *)
(***************************************************************************)
totalCells == 20

LogCap == 50

LogTail == 10

(***************************************************************************)
(* Bounds of the model                                                     *)
(***************************************************************************)
\* the clients send player_ready only while the session's log holds fewer
\* than MaxStarts battle-started entries (each battle start appends one, so
\* without the bound the log grows for ever)
MaxStarts == 2

\* SpecLobby: a join_queue pairs only while the registry holds fewer sessions
MaxGames == 2

\* columns of the three-row board of SpecBattle
FleetCols == 10

(***************************************************************************)
(* Connections and identifiers                                             *)
(***************************************************************************)
Sockets == {"a", "b", "c"}

Duel == {"a", "b"}

NoPlayer == "null"

NoGame == <<>>

NoSlot == "null"

NoWinner == "null"

Slots == {"p1", "p2"}

\* const gameId = p1.id + '_' + p2.id
GameId(p1, p2) == <<p1, p2>>

\* const opponentSlot = slot === 'p1' ? 'p2' : 'p1'
OpponentSlot(slot) == IF slot = "p1" THEN "p2" ELSE "p1"

\* board: null, ships: null
NoBoard == <<>>

Range(seq) == {seq[i] : i \in DOMAIN seq}

(***************************************************************************)
(* Client payloads of player_ready: { board, ships }.  A board maps a cell *)
(* <<r, c>> to a ship id, 0 for water (board[r][c]); ships maps a ship id  *)
(* to the list of its cells.  The server validates neither; the payloads   *)
(* drawn here are the ones a conforming client sends (board and ships      *)
(* agree).                                                                 *)
(***************************************************************************)
\* the one-row, three-cell board of Spec
SmallCells == {<<0, 0>>, <<0, 1>>, <<0, 2>>}

\* the one-cell board of SpecLobby
LobbyCells == {<<0, 0>>}

FleetCells == {<<r, c>> : r \in 0..2, c \in 0..(FleetCols - 1)}

\* the board grid that a ship list induces on a set of cells
BoardOf(cells, ships) ==
    [k \in cells |->
        IF \E id \in DOMAIN ships : k \in Range(ships[id])
        THEN CHOOSE id \in DOMAIN ships : k \in Range(ships[id])
        ELSE 0]

Payload(cells, ships) == [board |-> BoardOf(cells, ships), ships |-> ships]

\* one two-cell ship, water elsewhere
SmallShipsA == <<  << <<0, 0>>, <<0, 1>> >>  >>

\* two one-cell ships at the ends, water between
SmallShipsB == <<  << <<0, 0>> >>,  << <<0, 2>> >>  >>

SmallPayloads == {Payload(SmallCells, SmallShipsA), Payload(SmallCells, SmallShipsB)}

\* a single one-cell ship
LobbyPayloads == {Payload(LobbyCells, <<  << <<0, 0>> >>  >>)}

\* the standard fleet 4+3+3+2+2+2+1+1+1+1, packed into rows 0 and 1
FleetShipsA ==
    << << <<0,0>>, <<0,1>>, <<0,2>>, <<0,3>> >>,
       << <<0,4>>, <<0,5>>, <<0,6>> >>,
       << <<0,7>>, <<0,8>>, <<0,9>> >>,
       << <<1,0>>, <<1,1>> >>,
       << <<1,2>>, <<1,3>> >>,
       << <<1,4>>, <<1,5>> >>,
       << <<1,6>> >>,
       << <<1,7>> >>,
       << <<1,8>> >>,
       << <<1,9>> >> >>

\* the standard fleet with water between the ships
FleetShipsB ==
    << << <<0,0>>, <<0,1>>, <<0,2>>, <<0,3>> >>,
       << <<0,5>>, <<0,6>>, <<0,7>> >>,
       << <<1,0>>, <<1,1>>, <<1,2>> >>,
       << <<1,4>>, <<1,5>> >>,
       << <<1,7>>, <<1,8>> >>,
       << <<2,0>>, <<2,1>> >>,
       << <<0,9>> >>,
       << <<2,3>> >>,
       << <<2,5>> >>,
       << <<2,7>> >> >>

FleetPayloads == {Payload(FleetCells, FleetShipsA), Payload(FleetCells, FleetShipsB)}

(***************************************************************************)
(* createGame                                                              *)
(***************************************************************************)
NewSide(id) ==
    [id |-> id, board |-> NoBoard, ships |-> NoBoard, ready |-> FALSE,
     shotsFired |-> <<>>]

NewGame(p1, p2) ==
    [id |-> GameId(p1, p2), p1 |-> NewSide(p1), p2 |-> NewSide(p2),
     turn |-> "p1", phase |-> "placement", winner |-> NoWinner, log |-> <<>>]

\* the sockets in room gameId: both sides joined it in createGame, and a
\* socket leaves its rooms when it disconnects
Room(game) == {game.p1.id, game.p2.id} \cap connected

Msg(ev, to, data) == [ev |-> ev, to |-> to, data |-> data]

(***************************************************************************)
(* player_ready handler: the session after it ran for side slot            *)
(***************************************************************************)
BattleEntry == [type |-> "system", text |-> "battle_started"]

VictoryEntry == [type |-> "system", text |-> "victory"]

ShotEntry(resultType) == [type |-> resultType, text |-> resultType]

\* mutant: the side is marked ready without its board being stored
StoreReadyOnly(game, slot, payload) == [game EXCEPT ![slot].ready = TRUE]

\* game[slot].board = board; game[slot].ships = ships; game[slot].ready = true
StoreBoard(game, slot, payload) ==
    [game EXCEPT ![slot].board = payload.board,
                 ![slot].ships = payload.ships,
                 ![slot].ready = TRUE]

\* mutant: the battle starts as soon as the submitting side is ready
ReadyGameSelfReady(game, slot, payload) ==
    LET stored == StoreBoard(game, slot, payload)
    IN  IF stored[slot].ready
        THEN [stored EXCEPT !.phase = "battle",
                            !.log = Append(stored.log, BattleEntry)]
        ELSE stored

\* if (game[opponentSlot].ready) { game.phase = 'battle'; game.log.push(...) }
ReadyGame(game, slot, payload) ==
    LET stored == StoreBoard(game, slot, payload)
    IN  IF stored[OpponentSlot(slot)].ready
        THEN [stored EXCEPT !.phase = "battle",
                            !.log = Append(stored.log, BattleEntry)]
        ELSE stored

ReadyEmits(game, s, slot, payload) ==
    LET after == ReadyGame(game, slot, payload)
    IN  <<Msg("you_are_ready", {s}, <<>>)>> \o
        IF game[OpponentSlot(slot)].ready
        THEN <<Msg("battle_start", Room(game), <<after.turn, after.log>>)>>
        ELSE <<Msg("waiting_for_opponent_ready", {s}, <<>>)>>

(***************************************************************************)
(* fire handler: resolution of an accepted shot of side slot at cell       *)
(***************************************************************************)
\* if (game[slot].shotsFired[key]) return
AlreadyShot(game, slot, cell) == cell \in DOMAIN game[slot].shotsFired

\* const cellValue = opponentBoard[r][c]
CellValue(game, slot, cell) == game[OpponentSlot(slot)].board[cell]

\* const shipCells = opponentShips[shipId]
ShipCells(game, slot, cell) ==
    game[OpponentSlot(slot)].ships[CellValue(game, slot, cell)]

\* shipCells.filter(([sr, sc]) => game[slot].shotsFired[sr+','+sc]).length
PrevHits(game, slot, cell) ==
    LET shipCells == ShipCells(game, slot, cell)
    IN  Cardinality({i \in DOMAIN shipCells :
                        shipCells[i] \in DOMAIN game[slot].shotsFired})

ResultType(game, slot, cell) ==
    IF CellValue(game, slot, cell) # 0
    THEN IF PrevHits(game, slot, cell) + 1 >= Len(ShipCells(game, slot, cell))
         THEN "sunk"
         ELSE "hit"
    ELSE "miss"

\* mutant: a sinking shot records the fired cell only
AffectedCellsFiredOnly(game, slot, cell) == <<cell>>

AffectedCells(game, slot, cell) ==
    IF ResultType(game, slot, cell) = "sunk"
    THEN ShipCells(game, slot, cell)
    ELSE <<cell>>

\* mutant: nothing is recorded
RecordShotsNothing(game, slot, cell) == game[slot].shotsFired

\* affectedCells.forEach(([sr, sc]) => { game[slot].shotsFired[sr+','+sc] = resultType })
RecordShots(game, slot, cell) ==
    LET shots == game[slot].shotsFired
        cells == Range(AffectedCells(game, slot, cell))
    IN  [k \in DOMAIN shots \cup cells |->
            IF k \in cells THEN ResultType(game, slot, cell) ELSE shots[k]]

\* game.log.slice(-n)
Slice(log, n) ==
    IF Len(log) > n THEN SubSeq(log, Len(log) - n + 1, Len(log)) ELSE log

\* game.log.push(...); if (game.log.length > 50) game.log = game.log.slice(-50)
PushShot(log, resultType) ==
    LET pushed == Append(log, ShotEntry(resultType))
    IN  IF Len(pushed) > LogCap THEN Slice(pushed, LogCap) ELSE pushed

\* mutant: the turn passes after every shot
TurnAfterEveryShot(game, slot, resultType) == OpponentSlot(slot)

\* if (resultType === 'miss') game.turn = opponentSlot
TurnAfter(game, slot, resultType) ==
    IF resultType = "miss" THEN OpponentSlot(slot) ELSE game.turn

\* Object.values(shotsFired).filter(v => v === 'hit' || v === 'sunk').length
TotalHits(shots) == Cardinality({k \in DOMAIN shots : shots[k] \in {"hit", "sunk"}})

\* mutant: the win needs one hit more than the fleet has cells
IsWinOffByOne(shots) == TotalHits(shots) > totalCells

\* if (totalHits >= game.totalCells)
IsWin(shots) == TotalHits(shots) >= totalCells

\* the session after an accepted fire
\* mutant: the shot is recorded in the shot record of the opposite side
FireGameWrongSide(game, slot, cell) ==
    LET resultType == ResultType(game, slot, cell)
        shots == RecordShots(game, slot, cell)
        shot == [game EXCEPT ![OpponentSlot(slot)].shotsFired = shots,
                             !.log = PushShot(game.log, resultType),
                             !.turn = TurnAfter(game, slot, resultType)]
    IN  IF IsWin(shots)
        THEN [shot EXCEPT !.phase = "finished",
                          !.winner = slot,
                          !.log = Append(shot.log, VictoryEntry)]
        ELSE shot

FireGame(game, slot, cell) ==
    LET resultType == ResultType(game, slot, cell)
        shots == RecordShots(game, slot, cell)
        shot == [game EXCEPT ![slot].shotsFired = shots,
                             !.log = PushShot(game.log, resultType),
                             !.turn = TurnAfter(game, slot, resultType)]
    IN  IF IsWin(shots)
        THEN [shot EXCEPT !.phase = "finished",
                          !.winner = slot,
                          !.log = Append(shot.log, VictoryEntry)]
        ELSE shot

ShotResult(game, slot, cell) ==
    LET after == FireGame(game, slot, cell)
    IN  Msg("shot_result", Room(game),
            <<slot, cell, ResultType(game, slot, cell),
              AffectedCells(game, slot, cell),
              after.turn, after.phase, after.winner, Slice(after.log, LogTail)>>)

(***************************************************************************)
(* Initial state: let waitingPlayer = null; const games = {}; every        *)
(* connection has its handlers registered and no session bound.            *)
(***************************************************************************)
Init ==
    /\ waitingPlayer = NoPlayer
    /\ games = <<>>
    /\ sockets = [s \in Sockets |-> [gameId |-> NoGame, slot |-> NoSlot]]
    /\ connected = Sockets
    /\ timers = <<>>
    /\ emitted = <<>>

\* if (!gameId || !games[gameId]) return   (negated)
Bound(s) == sockets[s].gameId # NoGame /\ sockets[s].gameId \in DOMAIN games

\* const game = games[socket.gameId]
GameOf(s) == games[sockets[s].gameId]

(***************************************************************************)
(* socket.on('join_queue')                                                 *)
(***************************************************************************)
\* mutant: the identity check is missing
PairsWithSelf(s) == waitingPlayer # NoPlayer

\* if (waitingPlayer && waitingPlayer.id !== socket.id)
Pairs(s) == waitingPlayer # NoPlayer /\ waitingPlayer # s

JoinQueue(s) ==
    /\ s \in connected
    /\ IF Pairs(s)
       THEN LET opponent == waitingPlayer
                game == NewGame(opponent, s)
            IN  /\ waitingPlayer' = NoPlayer
                /\ games' = (game.id :> game) @@ games
                /\ sockets' = [sockets EXCEPT
                                  ![opponent] = [gameId |-> game.id, slot |-> "p1"],
                                  ![s] = [gameId |-> game.id, slot |-> "p2"]]
                /\ emitted' = <<Msg("game_found", {opponent, s} \cap connected,
                                    <<game.id>>)>>
       ELSE /\ waitingPlayer' = s
            /\ emitted' = <<Msg("waiting", {s}, <<>>)>>
            /\ UNCHANGED <<games, sockets>>
    /\ UNCHANGED <<connected, timers>>

(***************************************************************************)
(* socket.on('player_ready')                                               *)
(***************************************************************************)
PlayerReady(s, payload) ==
    /\ s \in connected
    /\ IF Bound(s)
       THEN /\ games' = [games EXCEPT ![sockets[s].gameId] =
                            ReadyGame(GameOf(s), sockets[s].slot, payload)]
            /\ emitted' = ReadyEmits(GameOf(s), s, sockets[s].slot, payload)
       ELSE /\ emitted' = <<>>
            /\ UNCHANGED games
    /\ UNCHANGED <<waitingPlayer, sockets, connected, timers>>

(***************************************************************************)
(* socket.on('fire')                                                       *)
(***************************************************************************)
\* mutant: the turn check is missing
FireAcceptedAnyTurn(s, cell) ==
    /\ Bound(s)
    /\ GameOf(s).phase = "battle"
    /\ ~AlreadyShot(GameOf(s), sockets[s].slot, cell)

\* mutant: the already-shot guard is missing
FireAcceptedNoShotGuard(s, cell) ==
    /\ Bound(s)
    /\ GameOf(s).phase = "battle"
    /\ GameOf(s).turn = sockets[s].slot

\* the request passes every guard of the handler
FireAccepted(s, cell) ==
    /\ Bound(s)
    /\ GameOf(s).phase = "battle"
    /\ GameOf(s).turn = sockets[s].slot
    /\ ~AlreadyShot(GameOf(s), sockets[s].slot, cell)

\* if (game.turn !== slot) { socket.emit('not_your_turn'); return; }
FireOutOfTurn(s) ==
    /\ Bound(s)
    /\ GameOf(s).phase = "battle"
    /\ GameOf(s).turn # sockets[s].slot

\* the registry after the handler ran
FireGames(s, cell) ==
    IF FireAccepted(s, cell)
    THEN [games EXCEPT ![sockets[s].gameId] =
             FireGame(GameOf(s), sockets[s].slot, cell)]
    ELSE games

\* what the handler emitted
FireEmits(s, cell) ==
    IF FireAccepted(s, cell)
    THEN <<ShotResult(GameOf(s), sockets[s].slot, cell)>>
    ELSE IF FireOutOfTurn(s)
         THEN <<Msg("not_your_turn", {s}, <<>>)>>
         ELSE <<>>

Fire(s, cell) ==
    /\ s \in connected
    /\ games' = FireGames(s, cell)
    /\ emitted' = FireEmits(s, cell)
    /\ UNCHANGED <<waitingPlayer, sockets, connected, timers>>

(***************************************************************************)
(* socket.on('disconnect')                                                 *)
(***************************************************************************)
\* socket.to(gameId).emit('opponent_disconnected'): the room without the sender
DisconnectEmits(s) ==
    IF Bound(s) /\ GameOf(s).phase # "finished"
    THEN <<Msg("opponent_disconnected", Room(GameOf(s)) \ {s}, <<>>)>>
    ELSE <<>>

\* if (game.phase !== 'finished') { ...; game.phase = 'finished'; }
DisconnectGames(s) ==
    IF Bound(s) /\ GameOf(s).phase # "finished"
    THEN [games EXCEPT ![sockets[s].gameId].phase = "finished"]
    ELSE games

\* setTimeout(() => { delete games[gameId]; }, 60000)
DisconnectTimers(s) ==
    IF Bound(s) THEN Append(timers, sockets[s].gameId) ELSE timers

\* mutant: the waiting slot keeps the connection that left
DisconnectWaitingKept(s) == waitingPlayer

\* if (waitingPlayer && waitingPlayer.id === socket.id) waitingPlayer = null
DisconnectWaiting(s) == IF waitingPlayer = s THEN NoPlayer ELSE waitingPlayer

Disconnect(s) ==
    /\ s \in connected
    /\ connected' = connected \ {s}
    /\ waitingPlayer' = DisconnectWaiting(s)
    /\ games' = DisconnectGames(s)
    /\ timers' = DisconnectTimers(s)
    /\ emitted' = DisconnectEmits(s)
    /\ UNCHANGED sockets

(***************************************************************************)
(* The cleanup timer callback: delete games[gameId].  All timers have the  *)
(* same delay, so they fire in the order they were set.                    *)
(***************************************************************************)
\* mutant: the callback clears the registry
DeleteAll(registry, gameId) == <<>>

Delete(registry, gameId) ==
    [g \in DOMAIN registry \ {gameId} |-> registry[g]]

CleanupTimer ==
    /\ timers # <<>>
    /\ games' = Delete(games, Head(timers))
    /\ timers' = Tail(timers)
    /\ emitted' = <<>>
    /\ UNCHANGED <<waitingPlayer, sockets, connected>>

(***************************************************************************)
(* Specifications.  The environment (the clients) chooses the requests;    *)
(* the specifications differ only in the requests the clients send.          *)
(***************************************************************************)
Starts(log) == Len(SelectSeq(log, LAMBDA e : e = BattleEntry))

ReadyAllowed(s) == Bound(s) => Starts(GameOf(s).log) < MaxStarts

\* each client joins the queue once
JoinsOnce(s) == sockets[s].gameId = NoGame

\* Spec: two clients play one session on the three-cell board, firing at any
\* cell in any order; player_ready may arrive in every phase.
Next ==
    \E s \in Duel :
        \/ JoinsOnce(s) /\ JoinQueue(s)
        \/ \E payload \in SmallPayloads : ReadyAllowed(s) /\ PlayerReady(s, payload)
        \/ \E cell \in SmallCells : Fire(s, cell)
        \/ Disconnect(s)
        \/ CleanupTimer

Spec == Init /\ [][Next]_vars

\* SpecLobby: three clients join the queue again and again, also while bound
\* to a session; sessions are played on the one-cell board and player_ready
\* is sent during placement.
LobbyReady(s) == Bound(s) => GameOf(s).phase = "placement"

LobbyJoin(s) == Pairs(s) => Cardinality(DOMAIN games) < MaxGames

NextLobby ==
    \E s \in Sockets :
        \/ LobbyJoin(s) /\ JoinQueue(s)
        \/ \E payload \in LobbyPayloads : LobbyReady(s) /\ PlayerReady(s, payload)
        \/ \E cell \in LobbyCells : Fire(s, cell)
        \/ Disconnect(s)
        \/ CleanupTimer

SpecLobby == Init /\ [][NextLobby]_vars

\* SpecBattle: two clients play the standard fleet to the end.  A client
\* fires at the first cell, in row-major order, that it has not targeted yet,
\* or again at <<0, 0>>; player_ready is sent outside the battle phase.
Index(cell) == cell[1] * FleetCols + cell[2]

NextTarget(shots) ==
    LET open == FleetCells \ DOMAIN shots
    IN  IF open = {}
        THEN {}
        ELSE {CHOOSE k \in open : \A j \in open : Index(k) <= Index(j)}

SweepTargets(s) ==
    IF Bound(s)
    THEN NextTarget(GameOf(s)[sockets[s].slot].shotsFired) \cup {<<0, 0>>}
    ELSE {<<0, 0>>}

BattleReady(s) == ReadyAllowed(s) /\ (Bound(s) => GameOf(s).phase # "battle")

NextBattle ==
    \E s \in Duel :
        \/ JoinsOnce(s) /\ JoinQueue(s)
        \/ \E payload \in FleetPayloads : BattleReady(s) /\ PlayerReady(s, payload)
        \/ \E cell \in SweepTargets(s) : Fire(s, cell)
        \/ Disconnect(s)
        \/ CleanupTimer

SpecBattle == Init /\ [][NextBattle]_vars

\* SpecMatch: as SpecBattle, with clients that send player_ready during
\* placement only.
PlacementReady(s) == Bound(s) => GameOf(s).phase = "placement"

NextMatch ==
    \E s \in Duel :
        \/ JoinsOnce(s) /\ JoinQueue(s)
        \/ \E payload \in FleetPayloads : PlacementReady(s) /\ PlayerReady(s, payload)
        \/ \E cell \in SweepTargets(s) : Fire(s, cell)
        \/ Disconnect(s)
        \/ CleanupTimer

SpecMatch == Init /\ [][NextMatch]_vars

\* SpecPlay: as SpecMatch, with clients that never disconnect, and the side
\* holding the turn eventually fires at a cell it has not targeted yet.
TurnHolderFires ==
    \E s \in Duel : \E cell \in SweepTargets(s) :
        FireAccepted(s, cell) /\ Fire(s, cell)

NextPlay ==
    \E s \in Duel :
        \/ JoinsOnce(s) /\ JoinQueue(s)
        \/ \E payload \in FleetPayloads : PlacementReady(s) /\ PlayerReady(s, payload)
        \/ \E cell \in SweepTargets(s) : Fire(s, cell)

SpecPlay == Init /\ [][NextPlay]_vars /\ WF_vars(TurnHolderFires)

(***************************************************************************)
(* Helpers of the properties                                               *)
(***************************************************************************)
PhaseRank(phase) ==
    CASE phase = "placement" -> 0 [] phase = "battle" -> 1 [] phase = "finished" -> 2

\* the sessions that exist before and after the step and were not created by it
Surviving(g) ==
    /\ g \in DOMAIN games
    /\ g \in DOMAIN games'
    /\ games'[g] # NewGame(g[1], g[2])

\* the handler that ran last broadcast a shot_result
ShotBroadcast(msgs) == \E i \in DOMAIN msgs : msgs[i].ev = "shot_result"

\* the cells of the opponent's board that hold the ship at cell
ShipAt(board, cell) == {k \in DOMAIN board : board[k] = board[cell]}

(***************************************************************************)
(* C1: a session's phase only moves placement -> battle -> finished: no    *)
(* step takes a session from battle back to placement, or from finished to *)
(* battle or placement.                                                    *)
(***************************************************************************)
C1_PhaseNeverMovesBack ==
    [][\A g \in DOMAIN games :
          Surviving(g) => PhaseRank(games'[g].phase) >= PhaseRank(games[g].phase)]_vars

(***************************************************************************)
(* C2: on an accepted fire the turn passes to the opponent if and only if  *)
(* the broadcast result is a miss (the fired cell of the opponent's board  *)
(* is water) and stays where it is on a hit or sunk; a rejected fire, a    *)
(* player_ready, a disconnect, a join_queue and the cleanup timer leave    *)
(* the turn of every session alone.                                        *)
(***************************************************************************)
C2_FireTurn ==
    \A s \in Duel, cell \in SmallCells :
        (Fire(s, cell) /\ FireAccepted(s, cell)) =>
            LET g == sockets[s].gameId
                slot == sockets[s].slot
                result == emitted'[1].data[3]
            IN  /\ result = "miss" <=> GameOf(s)[OpponentSlot(slot)].board[cell] = 0
                /\ games'[g].turn = OpponentSlot(slot) <=> result = "miss"
                /\ result # "miss" => games'[g].turn = games[g].turn

C2_OnlyFireMovesTurn ==
    \A h \in DOMAIN games :
        (Surviving(h) /\ games'[h].turn # games[h].turn) =>
            \E s \in Duel, cell \in SmallCells :
                /\ sockets[s].gameId = h
                /\ FireAccepted(s, cell)
                /\ Fire(s, cell)

C2_TurnFlipsOnlyOnMiss == [][C2_FireTurn /\ C2_OnlyFireMovesTurn]_vars

\* the second side got the turn through a miss of the first, hit, and kept it
C2_Witness ==
    \E g \in DOMAIN games :
        /\ games[g].turn = "p2"
        /\ games[g].phase = "battle"
        /\ \E k \in DOMAIN games[g].p2.shotsFired : games[g].p2.shotsFired[k] = "hit"
        /\ ShotBroadcast(emitted)

(***************************************************************************)
(* C4: an accepted fire that hits a cell of ship S of the opponent is      *)
(* resolved as sunk exactly when, after the shot, every cell of S has an   *)
(* outcome in the shooter's Shot Record; on sunk every cell of S is        *)
(* recorded as sunk, on hit only the fired cell is added, as hit.          *)
(***************************************************************************)
C4_SunkWhenWholeShipRecorded ==
    [][\A s \in Duel, cell \in SmallCells :
          (Fire(s, cell) /\ FireAccepted(s, cell)) =>
              LET g == sockets[s].gameId
                  slot == sockets[s].slot
                  board == GameOf(s)[OpponentSlot(slot)].board
                  ship == ShipAt(board, cell)
                  before == games[g][slot].shotsFired
                  after == games'[g][slot].shotsFired
                  result == emitted'[1].data[3]
              IN  board[cell] # 0 =>
                    /\ result \in {"hit", "sunk"}
                    /\ result = "sunk" <=> ship \subseteq (DOMAIN before \cup {cell})
                    /\ result = "sunk" =>
                          /\ DOMAIN after = DOMAIN before \cup ship
                          /\ \A k \in ship : after[k] = "sunk"
                          /\ \A k \in DOMAIN before \ ship : after[k] = before[k]
                    /\ result = "hit" =>
                          /\ DOMAIN after = DOMAIN before \cup {cell}
                          /\ after[cell] = "hit"
                          /\ \A k \in DOMAIN before : after[k] = before[k]]_vars

\* a two-cell ship has just been sunk: both its cells are recorded as sunk
C4_Witness ==
    /\ ShotBroadcast(emitted)
    /\ emitted[1].data[3] = "sunk"
    /\ Len(emitted[1].data[4]) = 2
    /\ \E g \in DOMAIN games :
          \E slot \in Slots :
              \A k \in Range(emitted[1].data[4]) :
                  /\ k \in DOMAIN games[g][slot].shotsFired
                  /\ games[g][slot].shotsFired[k] = "sunk"

(***************************************************************************)
(* C5: a fire at a coordinate that is already a key of the shooter's Shot  *)
(* Record changes nothing in the registry (Shot Records, log, turn, phase, *)
(* winner) and broadcasts no shot_result.                                  *)
(***************************************************************************)
C5_RefireIsNoOp ==
    \A s \in Duel, cell \in SmallCells :
        (Bound(s) /\ AlreadyShot(GameOf(s), sockets[s].slot, cell)) =>
            /\ FireGames(s, cell) = games
            /\ ~ShotBroadcast(FireEmits(s, cell))

\* the side holding the turn in a battle can fire again at a recorded cell
C5_Witness ==
    \E s \in Duel, cell \in SmallCells :
        /\ s \in connected
        /\ Bound(s)
        /\ GameOf(s).phase = "battle"
        /\ GameOf(s).turn = sockets[s].slot
        /\ AlreadyShot(GameOf(s), sockets[s].slot, cell)

(***************************************************************************)
(* C3: an accepted fire sets phase to finished and winner to the firing    *)
(* side if and only if the firing side's Shot Record then holds at least   *)
(* totalCells (20) entries with outcome hit or sunk; and in every state a  *)
(* side is the winner only if its Shot Record holds at least 20 of them.   *)
(***************************************************************************)
HitOrSunk(shots) == {k \in DOMAIN shots : shots[k] = "hit" \/ shots[k] = "sunk"}

C3_WinnerHasTwentyHits ==
    \A g \in DOMAIN games :
        games[g].winner # NoWinner =>
            Cardinality(HitOrSunk(games[g][games[g].winner].shotsFired)) >= 20

C3_FireWinsAtTwenty ==
    \A s \in Duel, cell \in FleetCells :
        (Fire(s, cell) /\ FireAccepted(s, cell)) =>
            LET g == sockets[s].gameId
                slot == sockets[s].slot
                count == Cardinality(HitOrSunk(games'[g][slot].shotsFired))
            IN  /\ count >= 20 <=>
                      (games'[g].phase = "finished" /\ games'[g].winner = slot)
                /\ count < 20 =>
                      (games'[g].phase = "battle" /\ games'[g].winner = games[g].winner)

C3_WinExactlyAtTwenty == []C3_WinnerHasTwentyHits /\ [][C3_FireWinsAtTwenty]_vars

\* a winning shot has just been broadcast
C3_Witness ==
    /\ ShotBroadcast(emitted)
    /\ emitted[1].data[6] = "finished"
    /\ \E g \in DOMAIN games :
          /\ games[g].winner = emitted[1].data[1]
          /\ games[g].phase = "finished"

(***************************************************************************)
(* C6: in every state winner is set only if phase is finished (and a       *)
(* session finished by a disconnect alone has no winner).                  *)
(***************************************************************************)
C6_WinnerOnlyWhenFinished ==
    \A g \in DOMAIN games :
        games[g].winner # NoWinner => games[g].phase = "finished"

(***************************************************************************)
(* C7: a join_queue by a connection other than the waiting one empties the *)
(* Waiting Slot and creates exactly one session, with the waiting          *)
(* participant as p1 and the joiner as p2, leaving every other session     *)
(* alone; a join_queue with the slot empty or held by the joiner itself    *)
(* creates no session and leaves the joiner waiting; the slot holds one    *)
(* connection or none, and the two sides of every session differ.          *)
(***************************************************************************)
C7_SlotAndSides ==
    /\ waitingPlayer \in Sockets \cup {NoPlayer}
    /\ \A g \in DOMAIN games :
          /\ games[g].p1.id # games[g].p2.id
          /\ g = GameId(games[g].p1.id, games[g].p2.id)

C7_JoinStep ==
    \A s \in Sockets :
        JoinQueue(s) =>
            IF waitingPlayer # NoPlayer /\ waitingPlayer # s
            THEN LET g == GameId(waitingPlayer, s)
                 IN  /\ waitingPlayer' = NoPlayer
                     /\ DOMAIN games' = DOMAIN games \cup {g}
                     /\ games'[g].p1.id = waitingPlayer
                     /\ games'[g].p2.id = s
                     /\ games'[g].phase = "placement"
                     /\ \A h \in DOMAIN games \ {g} : games'[h] = games[h]
                     /\ sockets'[waitingPlayer] = [gameId |-> g, slot |-> "p1"]
                     /\ sockets'[s] = [gameId |-> g, slot |-> "p2"]
            ELSE /\ waitingPlayer' = s
                 /\ games' = games

C7_PairingTakesTwoDistinct == []C7_SlotAndSides /\ [][C7_JoinStep]_vars

\* a pairing has just happened
C7_Witness ==
    /\ emitted # <<>>
    /\ emitted[1].ev = "game_found"
    /\ waitingPlayer = NoPlayer
    /\ Cardinality(DOMAIN games) = 2

(***************************************************************************)
(* C8: when a connection bound to a session that is not finished           *)
(* disconnects, the session becomes finished, its winner is unset, and     *)
(* opponent_disconnected goes to the other side and not to the             *)
(* disconnecting one; when the Waiting Slot occupant disconnects, the slot *)
(* is emptied.                                                             *)
(***************************************************************************)
C8_DisconnectStep ==
    \A s \in Sockets :
        Disconnect(s) =>
            /\ waitingPlayer = s => waitingPlayer' = NoPlayer
            /\ (Bound(s) /\ GameOf(s).phase # "finished") =>
                  LET g == sockets[s].gameId
                      other == GameOf(s)[OpponentSlot(sockets[s].slot)].id
                  IN  /\ games'[g].phase = "finished"
                      /\ games'[g].winner = NoWinner
                      /\ emitted' = <<Msg("opponent_disconnected", {other}, <<>>)>>

C8_DisconnectFinishesSession == [][C8_DisconnectStep]_vars

(***************************************************************************)
(* C9: every finished session in the registry has a removal scheduled (so  *)
(* that it is removed once the timer fires), whether it was finished by a  *)
(* winning shot or by a disconnect.                                        *)
(***************************************************************************)
C9_FinishedHasRemovalScheduled ==
    \A g \in DOMAIN games :
        games[g].phase = "finished" => g \in Range(timers)

(***************************************************************************)
(* C10: the Event Log of every session holds at most 50 entries.           *)
(***************************************************************************)
C10_LogAtMostFifty ==
    \A g \in DOMAIN games : Len(games[g].log) <= 50

(***************************************************************************)
(* C11: a fire during battle from the side that does not hold the turn     *)
(* changes no field of any session, broadcasts no shot_result, and sends   *)
(* not_your_turn to the caller alone.                                      *)
(***************************************************************************)
C11_OutOfTurnFireRejected ==
    \A s \in Duel, cell \in SmallCells :
        (/\ Bound(s)
         /\ GameOf(s).phase = "battle"
         /\ GameOf(s).turn # sockets[s].slot) =>
            /\ FireGames(s, cell) = games
            /\ FireEmits(s, cell) = <<[ev |-> "not_your_turn", to |-> {s}, data |-> <<>>]>>

\* the side without the turn has just fired and been told so
C11_Witness ==
    \E s \in Duel :
        /\ Bound(s)
        /\ GameOf(s).phase = "battle"
        /\ GameOf(s).turn # sockets[s].slot
        /\ emitted = <<[ev |-> "not_your_turn", to |-> {s}, data |-> <<>>]>>

(***************************************************************************)
(* C12: during placement a player_ready moves the session to battle,       *)
(* appending the battle-started entry and broadcasting battle_start to the *)
(* room, exactly when the opposite side is already ready; otherwise the    *)
(* phase stays placement, the log is untouched and only the submitter is   *)
(* answered.  When the phase becomes battle the turn is p1.                *)
(***************************************************************************)
C12_BattleStartsWhenBothReady ==
    \A s \in Duel, payload \in SmallPayloads :
        (Bound(s) /\ GameOf(s).phase = "placement") =>
            LET game  == GameOf(s)
                slot  == sockets[s].slot
                after == ReadyGame(game, slot, payload)
                msgs  == ReadyEmits(game, s, slot, payload)
            IN  IF game[OpponentSlot(slot)].ready
                THEN /\ after.phase = "battle"
                     /\ after.turn = "p1"
                     /\ after.log = Append(game.log, BattleEntry)
                     /\ \E i \in DOMAIN msgs :
                            /\ msgs[i].ev = "battle_start"
                            /\ msgs[i].to = Room(game)
                            /\ msgs[i].data = <<"p1", after.log>>
                ELSE /\ after.phase = "placement"
                     /\ after.log = game.log
                     /\ \A i \in DOMAIN msgs :
                            msgs[i].to = {s} /\ msgs[i].ev # "battle_start"

\* the second side has just readied: battle entered, battle_start broadcast to both
C12_Witness ==
    \E g \in DOMAIN games :
        /\ games[g].phase = "battle"
        /\ games[g].turn = "p1"
        /\ games[g].log = <<BattleEntry>>
        /\ Len(emitted) = 2
        /\ emitted[2].ev = "battle_start"
        /\ emitted[2].to = {g[1], g[2]}

(***************************************************************************)
(* C13: cleanup tolerates an absent session.  A timer firing removes at    *)
(* most its own session, changes no other session and not the waiting      *)
(* slot, and is a no-op when its id is no longer in the registry.  A       *)
(* player_ready, fire or disconnect of a connection whose session has been *)
(* removed changes no session, schedules nothing and emits nothing.        *)
(***************************************************************************)
Removed(s) == sockets[s].gameId # NoGame /\ sockets[s].gameId \notin DOMAIN games

C13_CleanupStep ==
    CleanupTimer =>
        /\ waitingPlayer' = waitingPlayer
        /\ DOMAIN games' = DOMAIN games \ {Head(timers)}
        /\ \A g \in DOMAIN games' : games'[g] = games[g]
        /\ Head(timers) \notin DOMAIN games => games' = games

C13_RemovedStep ==
    \A s \in Sockets :
        Removed(s) =>
            /\ \A payload \in LobbyPayloads :
                   PlayerReady(s, payload) =>
                       emitted' = <<>> /\ UNCHANGED <<games, waitingPlayer, timers>>
            /\ \A cell \in LobbyCells :
                   Fire(s, cell) =>
                       emitted' = <<>> /\ UNCHANGED <<games, waitingPlayer, timers>>
            /\ Disconnect(s) =>
                   emitted' = <<>> /\ UNCHANGED <<games, timers>>

C13_CleanupToleratesAbsentSession == [][C13_CleanupStep /\ C13_RemovedStep]_vars

\* both sides of a session have disconnected and its first timer has fired:
\* the second removal of that session is pending, its connections are still
\* bound to it, and another session is registered
C13_Witness ==
    /\ timers # <<>>
    /\ Head(timers) \notin DOMAIN games
    /\ games # <<>>
    /\ \E s \in Sockets : sockets[s].gameId = Head(timers) /\ Removed(s)

(***************************************************************************)
(* C14: a fire, accepted or rejected, never changes a board, a ship        *)
(* layout, a readiness flag or the shot record of the opposite side; it    *)
(* changes nothing outside the shot record of the firing side and the log, *)
(* turn, phase and winner of the session of the caller: no other session   *)
(* and not the waiting slot.                                               *)
(***************************************************************************)
C14_FireStep ==
    (/\ UNCHANGED <<sockets, connected, timers>>
     /\ \A i \in DOMAIN emitted' : emitted'[i].ev \in {"shot_result", "not_your_turn"}) =>
        \A s \in Sockets, cell \in LobbyCells :
            Fire(s, cell) =>
                /\ waitingPlayer' = waitingPlayer
                /\ DOMAIN games' = DOMAIN games
                /\ \A g \in DOMAIN games :
                       /\ games'[g].id = games[g].id
                       /\ \A slot \in Slots :
                              /\ games'[g][slot].id = games[g][slot].id
                              /\ games'[g][slot].board = games[g][slot].board
                              /\ games'[g][slot].ships = games[g][slot].ships
                              /\ games'[g][slot].ready = games[g][slot].ready
                       /\ IF g = sockets[s].gameId
                          THEN games'[g][OpponentSlot(sockets[s].slot)] =
                                   games[g][OpponentSlot(sockets[s].slot)]
                          ELSE games'[g] = games[g]

C14_FireFrame == [][C14_FireStep]_vars

\* a shot has just been accepted in one of two registered sessions
C14_Witness ==
    /\ Cardinality(DOMAIN games) = 2
    /\ Len(emitted) = 1
    /\ emitted[1].ev = "shot_result"
    /\ \E g \in DOMAIN games : \E slot \in Slots : games[g][slot].shotsFired # <<>>

(***************************************************************************)
(* C15: every accepted fire adds at least one new key, the fired cell      *)
(* among them, to the shot record of the shooter, whose keys are cells of  *)
(* the board; and when nobody disconnects and the side holding the turn    *)
(* keeps firing at cells it has not targeted, a session in battle on       *)
(* twenty-cell boards reaches finished with a winner.                      *)
(***************************************************************************)
C15_AcceptedFireAddsKey ==
    \A s \in Duel, cell \in FleetCells :
        (FireAccepted(s, cell) /\ Fire(s, cell)) =>
            LET g == sockets[s].gameId
                slot == sockets[s].slot
            IN  /\ cell \notin DOMAIN games[g][slot].shotsFired
                /\ cell \in DOMAIN games'[g][slot].shotsFired
                /\ DOMAIN games[g][slot].shotsFired \subseteq
                       DOMAIN games'[g][slot].shotsFired

C15_ShotsWithinBoard ==
    \A g \in DOMAIN games : \A slot \in Slots :
        /\ DOMAIN games[g][slot].shotsFired \subseteq FleetCells
        /\ Cardinality(DOMAIN games[g][slot].shotsFired) <= Cardinality(FleetCells)

C15_InBattle == \E g \in DOMAIN games : games[g].phase = "battle"

C15_Won ==
    \E g \in DOMAIN games :
        games[g].phase = "finished" /\ games[g].winner \in Slots

C15_BattleTerminates ==
    /\ [][C15_AcceptedFireAddsKey]_vars
    /\ []C15_ShotsWithinBoard
    /\ C15_InBattle ~> C15_Won

\* a battle on two twenty-cell boards was played to the end, nobody having left
C15_Witness ==
    \E g \in DOMAIN games :
        /\ games[g].phase = "finished"
        /\ games[g].winner \in Slots
        /\ {g[1], g[2]} \subseteq connected
        /\ \A slot \in Slots :
               Cardinality({k \in DOMAIN games[g][slot].board :
                               games[g][slot].board[k] # 0}) = totalCells
        /\ TotalHits(games[g][games[g].winner].shotsFired) = totalCells

(***************************************************************************)
(* C16: once a session has left placement, neither side's board nor ship   *)
(* layout changes again: a player_ready received during battle or after    *)
(* the finish does not replace them.                                       *)
(***************************************************************************)
C16_BoardsFixedAfterPlacement ==
    [][\A g \in DOMAIN games :
          (Surviving(g) /\ games[g].phase # "placement") =>
              \A slot \in Slots :
                  /\ games'[g][slot].board = games[g][slot].board
                  /\ games'[g][slot].ships = games[g][slot].ships]_vars

(***************************************************************************)
(* C17: once the winner of a session is set it never changes, and no fire  *)
(* is accepted in that session any more: no shot is recorded for either    *)
(* side.                                                                   *)
(***************************************************************************)
C17_WinnerIsFinal ==
    [][\A g \in DOMAIN games :
          (Surviving(g) /\ games[g].winner # NoWinner) =>
              /\ games'[g].winner = games[g].winner
              /\ \A slot \in Slots :
                     games'[g][slot].shotsFired = games[g][slot].shotsFired]_vars

(***************************************************************************)
(* C18: a connection is a side of at most one session of the registry that *)
(* is not finished, and the connection in the waiting slot is a side of    *)
(* none.                                                                   *)
(***************************************************************************)
ActiveSessionsOf(s) ==
    {g \in DOMAIN games :
        games[g].phase # "finished" /\ s \in {games[g].p1.id, games[g].p2.id}}

C18_OneActiveSessionPerConnection ==
    /\ \A s \in Sockets : Cardinality(ActiveSessionsOf(s)) <= 1
    /\ waitingPlayer # NoPlayer => ActiveSessionsOf(waitingPlayer) = {}

(***************************************************************************)
(* C19: a session in battle has both sides ready, each with a board and a  *)
(* ship layout stored, so an accepted fire reads a submitted board.        *)
(***************************************************************************)
C19_BattleHasBothBoards ==
    \A g \in DOMAIN games :
        games[g].phase = "battle" =>
            \A slot \in Slots :
                /\ games[g][slot].ready
                /\ games[g][slot].board # NoBoard
                /\ games[g][slot].ships # NoBoard
                /\ games[g][slot].board \in {p.board : p \in SmallPayloads}
                /\ games[g][slot].ships \in {p.ships : p \in SmallPayloads}

\* a shot has just been accepted in a session that is still in battle
C19_Witness ==
    /\ ShotBroadcast(emitted)
    /\ \E g \in DOMAIN games :
           /\ games[g].phase = "battle"
           /\ \E slot \in Slots : games[g][slot].shotsFired # <<>>

(***************************************************************************)
(* C20: the connection in the waiting slot has not disconnected, so a      *)
(* session is created with two connected participants: game_found reaches  *)
(* both of them.                                                           *)
(***************************************************************************)
C20_WaitingIsConnected ==
    /\ waitingPlayer # NoPlayer => waitingPlayer \in connected
    /\ \A s \in connected : Pairs(s) => NewGame(waitingPlayer, s).p1.id \in connected
    /\ \A i \in DOMAIN emitted :
           emitted[i].ev = "game_found" =>
               \E g \in DOMAIN games :
                   /\ emitted[i].data = <<g>>
                   /\ emitted[i].to = {games[g].p1.id, games[g].p2.id}
                   /\ emitted[i].to \subseteq connected

\* a connection left without ever being paired, and afterwards two others
\* have just been paired
C20_Witness ==
    /\ \E d \in Sockets \ connected : sockets[d].gameId = NoGame
    /\ waitingPlayer = NoPlayer
    /\ Len(emitted) = 1
    /\ emitted[1].ev = "game_found"

====
